---- MODULE Spec2Model ----
(***************************************************************************)
(* Groundwater command center, service A (operations).                     *)
(*                                                                         *)
(* The module models the parts of the service as state machines over the   *)
(* persisted collections:                                                  *)
(*   - the streaming CSV ingestion of rainfall and water readings          *)
(*     (ingestRainfallCSV, ingestReadingsCSV),                             *)
(*   - the extraction controllers (createLog with the Safe Yield check,    *)
(*     logExtraction as bound by extraction.routes.js),                    *)
(*   - the job orchestrator (triggerPipeline, getJobStatus) and the proxy  *)
(*     of app.js,                                                          *)
(*   - the single inserts, the filtered reads, and the writes of the       *)
(*     Region and Well collections (deleteRegion, deleteWell, ...).        *)
(*                                                                         *)
(* An await in the source is a step boundary: the code between two awaits  *)
(* runs as one action, other requests interleave at the awaits.            *)
(*                                                                         *)
(* The 'error' listeners of the two upload streams have no action: with    *)
(* the options the controllers pass to csv-parser (no strict mode, default *)
(* maxRowBytes) the parser emits no 'error', and pipe() does not forward   *)
(* the errors of the file stream.                                          *)
(***************************************************************************)
EXTENDS Integers, Sequences, FiniteSets, TLC

VARIABLES
    Region,               \* Region collection: region_id -> document
    Well,                 \* Well collection: set of documents
    Rainfall,             \* Rainfall collection (append order)
    WaterReading,         \* WaterReading collection (append order)
    ExtractionLog,        \* ExtractionLog collection (append order)
    kind,                 \* which ingestion handler serves the upload
    header,               \* how csv-parser split the header line of the file
    stream,               \* state of the csv-parser stream of the upload
    rowsRead,             \* rows the stream has emitted as 'data' so far
    results,              \* results = { totalRows, inserted, failed, errors }
    batch,                \* let batch = []
    isFileFormatInvalid,  \* let isFileFormatInvalid = false
    pb,                   \* the processBatch call in flight, if any
    res,                  \* responses written to res of the upload, in order
    dbFailed,             \* the storage layer has rejected a bulk write of the upload
    forecastSvc,          \* what service B answers to GET /forecasts/:region_id
    ext,                  \* the extraction requests: id -> handler frame
    Job,                  \* Job collection: _id -> document
    trig,                 \* the pipeline trigger requests: id -> handler frame
    calls,                \* endpoints each trigger request has called on the external services
    qry,                  \* the GET /pipeline/status/:id request
    dw,                   \* the deleteWell request
    rd,                   \* the createReading request
    rf,                   \* the createRainfall request
    crud,                 \* status of the last answer of a Region or Well write handler
    get                   \* the GET /rainfall or GET /water-readings request

vars == <<Region, Well, Rainfall, WaterReading, ExtractionLog, kind, header,
          stream, rowsRead, results, batch, isFileFormatInvalid, pb, res, dbFailed,
          forecastSvc, ext, Job, trig, calls, qry, dw, rd, rf, crud, get>>

ingestVars == <<kind, header, stream, rowsRead, results, batch, isFileFormatInvalid, pb, res, dbFailed>>
storeVars == <<Rainfall, WaterReading>>
extVars == <<ExtractionLog, forecastSvc, ext>>
jobVars == <<Job, trig, calls, qry>>
opVars == <<dw, rd, rf, crud, get>>

-----------------------------------------------------------------------------
(* Bounds of the model.                                                    *)

\* Longest upload, in data rows.
MaxRows == 4
\* const BATCH_SIZE = 500, scaled down so that full batches, partial batches
\* and several flushes happen within MaxRows rows.
BATCH_SIZE == 2
\* Number of extraction requests in flight.
NReq == 2
\* Number of pipeline trigger requests in flight.
NTrig == 2
\* Documents the single-insert handlers add to a history collection.
MaxDocs == 2
\* results.errors.slice(0, 20): the length of the sample of the summary,
\* scaled down so that an upload of MaxRows rows can fail more rows than that.
SampleSize == 2
\* if (results.errors.length < 50) of the 'data' handlers, scaled down alike.
ErrorsKept == 3

-----------------------------------------------------------------------------
(* Reference data.                                                         *)

RegionIds == {"r1", "r2"}

\* Levels are in decimetres, specific_yield in hundredths, areas in m2,
\* volumes in litres: all quantities of the Safe Yield check are integers.
RegionDocs ==
    [r \in RegionIds |->
        IF r = "r1"
        THEN [is_active |-> TRUE, critical_water_level_m |-> 100,
              aquifer_area_m2 |-> 1000000, specific_yield |-> 15]
        ELSE [is_active |-> TRUE, critical_water_level_m |-> 50,
              aquifer_area_m2 |-> 500000, specific_yield |-> 20]]

WellDocs == {[well_id |-> "w1", region_id |-> "r1"],
             [well_id |-> "w2", region_id |-> "r2"]}

-----------------------------------------------------------------------------
(* JavaScript values of a parsed CSV row.  csv-parser yields an object     *)
(* whose keys are the (trimmed) header names and whose values are strings. *)

\* data.k: the value of the column, undefined when the row has no such key.
Get(data, k) == IF k \in DOMAIN data THEN data[k] ELSE "undefined"

\* !v for the values a row can hold.
Falsy(v) == v \in {"", "undefined"}

\* key.includes(','): the header names of the model that contain a comma.
IncludesComma(key) ==
    key \in {"region_id,amount_mm,timestamp,source",
             "well_id,region_id,water_level,timestamp,source"}

\* parseFloat on the cell texts of the model; "NaN" stands for NaN.
ParseFloat(txt) ==
    CASE txt = "12" -> [nan |-> FALSE, val |-> 12]
      [] txt = "0" -> [nan |-> FALSE, val |-> 0]
      [] txt = "-3" -> [nan |-> FALSE, val |-> -3]
      [] OTHER -> [nan |-> TRUE, val |-> 0]

IsNaN(x) == x.nan

\* new Date(text): only a well formed text gives a valid date.
NewDate(txt) == IF txt = "2024-01-01" THEN "2024-01-01T00:00:00Z" ELSE "Invalid Date"

\* timestamp ? new Date(timestamp) : new Date()
RowTimestamp(ts) == IF Falsy(ts) THEN "now" ELSE NewDate(ts)

\* source || 'csv_upload'
RowSource(src) == IF Falsy(src) THEN "csv_upload" ELSE src

-----------------------------------------------------------------------------
(* The rows an upload can contain.                                         *)

GoodRainRow ==
    [region_id |-> "r1", amount_mm |-> "12", timestamp |-> "2024-01-01", source |-> "sensor"]

RainRows ==
    { GoodRainRow,
      [GoodRainRow EXCEPT !.region_id = "r2"],
      [GoodRainRow EXCEPT !.region_id = "r9"],
      [GoodRainRow EXCEPT !.amount_mm = ""],
      [GoodRainRow EXCEPT !.amount_mm = "abc"],
      [GoodRainRow EXCEPT !.amount_mm = "-3"],
      [GoodRainRow EXCEPT !.source = ""],
      [GoodRainRow EXCEPT !.timestamp = "garbage"] }

GoodReadingRow ==
    [well_id |-> "w1", region_id |-> "r1", water_level |-> "12",
     timestamp |-> "2024-01-01", source |-> "sensor"]

ReadingRows ==
    { GoodReadingRow,
      [GoodReadingRow EXCEPT !.well_id = "w2", !.region_id = "r2"],
      [GoodReadingRow EXCEPT !.region_id = "r9"],
      [GoodReadingRow EXCEPT !.well_id = "w9"],
      [GoodReadingRow EXCEPT !.water_level = ""],
      [GoodReadingRow EXCEPT !.water_level = "abc"],
      [GoodReadingRow EXCEPT !.water_level = "-3"],
      [GoodReadingRow EXCEPT !.source = ""],
      [GoodReadingRow EXCEPT !.timestamp = "garbage"] }

\* A file whose header line was not split: every row is one pseudo-field.
UnsplitRainRow ==
    ("region_id,amount_mm,timestamp,source" :> "r1,12,2024-01-01,sensor")
UnsplitReadingRow ==
    ("well_id,region_id,water_level,timestamp,source" :> "w1,r1,12,2024-01-01,sensor")

FileRows(k, h) ==
    IF k = "rainfall"
    THEN (IF h = "split" THEN RainRows ELSE {UnsplitRainRow})
    ELSE (IF h = "split" THEN ReadingRows ELSE {UnsplitReadingRow})

-----------------------------------------------------------------------------
(* Mongoose schemas and Model.insertMany.                                  *)

\* RainfallSchema: amount_mm Number min 0, timestamp Date, source enum.
RainfallSchemaValid(doc) ==
    /\ doc.source \in {"sensor", "manual", "weather_station", "third_party_api"}
    /\ doc.timestamp # "Invalid Date"
    /\ doc.amount_mm >= 0

\* WaterReadingSchema: water_level Number, timestamp Date, source enum.
WaterReadingSchemaValid(doc) ==
    /\ doc.source \in {"sensor", "manual", "satellite"}
    /\ doc.timestamp # "Invalid Date"

SeqAll(s, P(_)) == \A i \in 1..Len(s) : P(s[i])

IdlePB == [pc |-> "idle", caller |-> "none", activeRegions |-> {}, validRecords |-> <<>>]

NoResults == [totalRows |-> 0, inserted |-> 0, failed |-> 0, errors |-> <<>>]

\* The elements of s that satisfy Keep, each mapped by F, in order.
FilterMap(s, Keep(_), F(_)) ==
    LET kept == SelectSeq(s, Keep) IN [i \in 1..Len(kept) |-> F(kept[i])]

-----------------------------------------------------------------------------
(* ingestRainfallCSV                                                       *)

\* The for loop of processBatch: the fate of one row.
RainfallRowVerdict(row, validRegionSet) ==
    IF row.region_id \notin validRegionSet THEN "Region not found or inactive"
    ELSE IF IsNaN(ParseFloat(row.amount_mm)) \/ ParseFloat(row.amount_mm).val < 0
         THEN "Invalid amount_mm"
         ELSE "ok"

RainfallRecord(row) ==
    [region_id |-> row.region_id,
     amount_mm |-> ParseFloat(row.amount_mm).val,
     source |-> RowSource(row.source),
     timestamp |-> RowTimestamp(row.timestamp)]

\* Region.find({ region_id: { $in: regionIds }, is_active: true })
RainfallFoundRegions(rows) ==
    {r \in RegionIds : Region[r].is_active /\ \E i \in 1..Len(rows) : rows[i].region_id = r}

\* The regions that exist and are active now.
ActiveRegions == {r \in RegionIds : Region[r].is_active}

\* A stream.pause() that leaves the stream flowing.
StreamPauseIgnored == "flowing"

\* stream.pause()
StreamPause == "paused"

\* errors.slice(0, n)
Slice(errors, n) == SubSeq(errors, 1, IF Len(errors) < n THEN Len(errors) ELSE n)

\* A summary that carries every recorded reason.
SummaryAllErrors(status) ==
    [status |-> status, error |-> "", total_rows |-> results'.totalRows,
     inserted |-> results'.inserted, failed |-> results'.failed,
     sample_errors |-> results'.errors]

\* The summary sent at the end of a run.
Summary(status) ==
    [status |-> status, error |-> "", total_rows |-> results'.totalRows,
     inserted |-> results'.inserted, failed |-> results'.failed,
     sample_errors |-> Slice(results'.errors, SampleSize)]

ErrorResponse(status, error) ==
    [status |-> status, error |-> error, total_rows |-> 0, inserted |-> 0,
     failed |-> 0, sample_errors |-> <<>>]

\* stream.on('data', ...) of ingestRainfallCSV
RainfallOnData(data) ==
    /\ kind = "rainfall" /\ stream = "flowing"
    /\ rowsRead < MaxRows
    /\ rowsRead' = rowsRead + 1
    /\ IF Cardinality(DOMAIN data) = 1 /\ \E k \in DOMAIN data : IncludesComma(k)
       THEN /\ isFileFormatInvalid' = TRUE
            /\ stream' = "destroyed"
            /\ UNCHANGED <<results, batch, pb>>
       ELSE /\ UNCHANGED isFileFormatInvalid
            /\ IF Falsy(Get(data, "region_id")) \/ Falsy(Get(data, "amount_mm"))
               THEN /\ results' = [results EXCEPT
                                     !.totalRows = @ + 1, !.failed = @ + 1,
                                     !.errors = IF Len(@) < ErrorsKept
                                                THEN Append(@, "Missing required columns (Check CSV headers)")
                                                ELSE @]
                    /\ UNCHANGED <<batch, stream, pb>>
               ELSE /\ results' = [results EXCEPT !.totalRows = @ + 1]
                    /\ batch' = Append(batch, data)
                    /\ IF Len(batch') >= BATCH_SIZE
                       THEN /\ stream' = StreamPause
                            /\ pb' = [IdlePB EXCEPT !.pc = "find", !.caller = "data"]
                       ELSE UNCHANGED <<stream, pb>>
    /\ UNCHANGED <<res, dbFailed, kind, header, Region, Well, storeVars, extVars, jobVars, opVars>>

\* .then(() => { batch = []; stream.resume(); }) of the 'data' handler, and the
\* code of the 'close' handler after await processBatch(batch).
RainfallBatchDone ==
    IF pb.caller = "data"
    THEN /\ batch' = <<>>
         /\ stream' = "flowing"
         /\ res' = res
    ELSE /\ res' = Append(res, Summary(200))
         /\ UNCHANGED <<batch, stream>>

\* .catch(err => { stream.destroy(); }) of the 'data' handler; in the 'close'
\* handler the rejection leaves the async listener: nothing is sent.
RainfallBatchFailed ==
    /\ stream' = IF pb.caller = "data" THEN "destroyed" ELSE stream
    /\ UNCHANGED <<batch, res>>

\* processBatch up to await Rainfall.insertMany: the bulk lookup answers and
\* the for loop sorts the rows.
RainfallProcessBatchFind ==
    /\ kind = "rainfall" /\ pb.pc = "find"
    /\ LET validRegionSet == RainfallFoundRegions(batch)
           IsOk(row) == RainfallRowVerdict(row, validRegionSet) = "ok"
           IsBad(row) == ~IsOk(row)
           Reason(row) == RainfallRowVerdict(row, validRegionSet)
           validRecords == FilterMap(batch, IsOk, RainfallRecord)
           reasons == FilterMap(batch, IsBad, Reason)
       IN /\ results' = [results EXCEPT !.failed = @ + Len(reasons),
                                          !.errors = @ \o reasons]
          /\ IF Len(validRecords) > 0
             THEN /\ pb' = [pb EXCEPT !.pc = "insertMany",
                                       !.activeRegions = ActiveRegions,
                                       !.validRecords = validRecords]
                  /\ UNCHANGED <<batch, stream, res>>
             ELSE /\ pb' = IdlePB
                  /\ RainfallBatchDone
    /\ UNCHANGED <<dbFailed, isFileFormatInvalid, kind, header, rowsRead, Region, Well, storeVars,
                   extVars, jobVars, opVars>>

\* await Rainfall.insertMany(validRecords); results.inserted += ...
\* Mongoose validates every document first and inserts none when one fails;
\* dbOk is whether the storage layer accepts the write.
RainfallInsertMany(dbOk) ==
    /\ kind = "rainfall" /\ pb.pc = "insertMany"
    /\ pb' = IdlePB
    /\ dbFailed' = (dbFailed \/ ~dbOk)
    /\ IF dbOk /\ SeqAll(pb.validRecords, RainfallSchemaValid)
       THEN /\ Rainfall' = Rainfall \o pb.validRecords
            /\ results' = [results EXCEPT !.inserted = @ + Len(pb.validRecords)]
            /\ RainfallBatchDone
       ELSE /\ UNCHANGED <<Rainfall, results>>
            /\ RainfallBatchFailed
    /\ UNCHANGED <<isFileFormatInvalid, kind, header, rowsRead, Region, Well, WaterReading, extVars, jobVars, opVars>>

\* stream.on('close', ...) of ingestRainfallCSV: after the end of the file
\* (the stream destroys itself) or after stream.destroy().
RainfallOnClose ==
    /\ kind = "rainfall" /\ stream \in {"flowing", "destroyed"}
    /\ stream' = "closed"
    /\ IF isFileFormatInvalid
       THEN /\ res' = Append(res, ErrorResponse(400, "CSV Format Error"))
            /\ UNCHANGED <<pb, results>>
       ELSE IF Len(batch) > 0
            THEN /\ pb' = [IdlePB EXCEPT !.pc = "find", !.caller = "close"]
                 /\ UNCHANGED <<res, results>>
            ELSE /\ results' = results
                 /\ res' = Append(res, Summary(200))
                 /\ UNCHANGED pb
    /\ UNCHANGED <<batch, dbFailed, isFileFormatInvalid, kind, header, rowsRead, Region, Well,
                   storeVars, extVars, jobVars, opVars>>

-----------------------------------------------------------------------------
(* ingestReadingsCSV                                                       *)

\* Well.find({ well_id: { $in: wellIds }, region_id: { $in: regionIds } }),
\* as the set of "wellId|regionId" keys.
ReadingsFoundWells(rows) ==
    {<<w.well_id, w.region_id>> : w \in
        {w \in Well : /\ \E i \in 1..Len(rows) : rows[i].well_id = w.well_id
                      /\ \E i \in 1..Len(rows) : rows[i].region_id = w.region_id}}

ReadingsRowVerdict(row, validWellMap) ==
    IF <<row.well_id, row.region_id>> \notin validWellMap
    THEN "Well/Region mismatch or not found"
    ELSE IF IsNaN(ParseFloat(row.water_level))
         THEN "Invalid water_level"
         ELSE "ok"

ReadingRecord(row) ==
    [well_id |-> row.well_id,
     region_id |-> row.region_id,
     water_level |-> ParseFloat(row.water_level).val,
     source |-> RowSource(row.source),
     timestamp |-> RowTimestamp(row.timestamp)]

\* stream.on('data', ...) of ingestReadingsCSV
ReadingsOnData(data) ==
    /\ kind = "readings" /\ stream = "flowing"
    /\ rowsRead < MaxRows
    /\ rowsRead' = rowsRead + 1
    /\ IF Falsy(Get(data, "well_id")) \/ Falsy(Get(data, "region_id"))
          \/ Falsy(Get(data, "water_level"))
       THEN /\ results' = [results EXCEPT
                             !.totalRows = @ + 1, !.failed = @ + 1,
                             !.errors = IF Len(@) < ErrorsKept
                                        THEN Append(@, "Missing required columns")
                                        ELSE @]
            /\ UNCHANGED <<batch, stream, pb>>
       ELSE /\ results' = [results EXCEPT !.totalRows = @ + 1]
            /\ batch' = Append(batch, data)
            /\ IF Len(batch') >= BATCH_SIZE
               THEN /\ stream' = StreamPause
                    /\ pb' = [IdlePB EXCEPT !.pc = "find", !.caller = "data"]
               ELSE UNCHANGED <<stream, pb>>
    /\ UNCHANGED <<res, dbFailed, isFileFormatInvalid, kind, header, Region, Well,
                   storeVars, extVars, jobVars, opVars>>

\* .then(() => { batch = []; stream.resume(); }) of the 'data' handler, and the
\* code of the 'end' handler after await processBatch(batch).  The summary of
\* this handler nests the counts: summary.total_processed is total_rows here.
ReadingsBatchDone ==
    IF pb.caller = "data"
    THEN /\ batch' = <<>>
         /\ stream' = "flowing"
         /\ res' = res
    ELSE /\ res' = Append(res, Summary(200))
         /\ UNCHANGED <<batch, stream>>

\* .catch(err => { stream.destroy(); res.status(500).json(...) }) of the
\* 'data' handler; in the 'end' handler the rejection leaves the async
\* listener: nothing is sent.
ReadingsBatchFailed ==
    IF pb.caller = "data"
    THEN /\ stream' = "destroyed"
         /\ res' = Append(res, ErrorResponse(500, "Database batch write failed"))
         /\ UNCHANGED batch
    ELSE UNCHANGED <<stream, res, batch>>

\* processBatch up to await WaterReading.insertMany.
ReadingsProcessBatchFind ==
    /\ kind = "readings" /\ pb.pc = "find"
    /\ LET validWellMap == ReadingsFoundWells(batch)
           IsOk(row) == ReadingsRowVerdict(row, validWellMap) = "ok"
           IsBad(row) == ~IsOk(row)
           Reason(row) == ReadingsRowVerdict(row, validWellMap)
           validReadings == FilterMap(batch, IsOk, ReadingRecord)
           reasons == FilterMap(batch, IsBad, Reason)
       IN /\ results' = [results EXCEPT !.failed = @ + Len(reasons),
                                          !.errors = @ \o reasons]
          /\ IF Len(validReadings) > 0
             THEN /\ pb' = [pb EXCEPT !.pc = "insertMany",
                                       !.activeRegions = ActiveRegions,
                                       !.validRecords = validReadings]
                  /\ UNCHANGED <<batch, stream, res>>
             ELSE /\ pb' = IdlePB
                  /\ ReadingsBatchDone
    /\ UNCHANGED <<dbFailed, isFileFormatInvalid, kind, header, rowsRead, Region, Well, storeVars,
                   extVars, jobVars, opVars>>

\* await WaterReading.insertMany(validReadings); results.inserted += ...
ReadingsInsertMany(dbOk) ==
    /\ kind = "readings" /\ pb.pc = "insertMany"
    /\ pb' = IdlePB
    /\ dbFailed' = (dbFailed \/ ~dbOk)
    /\ IF dbOk /\ SeqAll(pb.validRecords, WaterReadingSchemaValid)
       THEN /\ WaterReading' = WaterReading \o pb.validRecords
            /\ results' = [results EXCEPT !.inserted = @ + Len(pb.validRecords)]
            /\ ReadingsBatchDone
       ELSE /\ UNCHANGED <<WaterReading, results>>
            /\ ReadingsBatchFailed
    /\ UNCHANGED <<isFileFormatInvalid, kind, header, rowsRead, Region, Well, Rainfall, extVars, jobVars, opVars>>

\* stream.on('end', ...) of ingestReadingsCSV: the file is exhausted.
ReadingsOnEnd ==
    /\ kind = "readings" /\ stream = "flowing"
    /\ stream' = "ended"
    /\ IF Len(batch) > 0
       THEN /\ pb' = [IdlePB EXCEPT !.pc = "find", !.caller = "end"]
            /\ UNCHANGED <<res, results>>
       ELSE /\ results' = results
            /\ res' = Append(res, Summary(200))
            /\ UNCHANGED pb
    /\ UNCHANGED <<batch, dbFailed, isFileFormatInvalid, kind, header, rowsRead, Region, Well,
                   storeVars, extVars, jobVars, opVars>>

-----------------------------------------------------------------------------
(* Regions                                                                 *)

\* A deactivation that also removes the history of the region.
deleteRegionPurge(id) ==
    /\ id \in RegionIds
    /\ Region[id].is_active
    /\ Region' = [Region EXCEPT ![id].is_active = FALSE]
    /\ Rainfall' = SelectSeq(Rainfall, LAMBDA doc : doc.region_id # id)
    /\ WaterReading' = SelectSeq(WaterReading, LAMBDA doc : doc.region_id # id)
    /\ UNCHANGED <<Well, ingestVars, extVars, jobVars, opVars>>

\* deleteRegion: Region.findOneAndUpdate({ region_id: id }, { $set: { is_active: false } })
deleteRegion(id) ==
    /\ id \in RegionIds
    /\ Region[id].is_active
    /\ Region' = [Region EXCEPT ![id].is_active = FALSE]
    /\ UNCHANGED <<Well, storeVars, ingestVars, extVars, jobVars, opVars>>

-----------------------------------------------------------------------------
(* Extraction: createLog (Safe Yield) and logExtraction                    *)

\* What axios.get(`${SERVICE_B_URL}/${region_id}`) can produce: a rejection
\* (service unreachable or error status) or response.data, a series of
\* predicted_level values (decimetres).
ForecastOutcomes ==
    {[ok |-> FALSE, data |-> <<>>],
     [ok |-> TRUE, data |-> <<>>],
     [ok |-> TRUE, data |-> <<105>>],
     [ok |-> TRUE, data |-> <<110, 105, 108>>],
     [ok |-> TRUE, data |-> <<105, 99>>]}

\* The request bodies of the model.
ExtractionBodies ==
    [region_id : {"r1"}, volume_liters : {0, 100000, 75000000, 90000000},
     usage_type : {"irrigation"}]
    \cup [region_id : {"r1"}, volume_liters : {100000}, usage_type : {"bogus"}]
    \cup [region_id : {"r2"}, volume_liters : {100000, 90000000}, usage_type : {"domestic"}]
    \cup [region_id : {"r9"}, volume_liters : {0, 100000}, usage_type : {"irrigation"}]

IdleExt ==
    [pc |-> "idle", handler |-> "none",
     body |-> [region_id |-> "", volume_liters |-> 0, usage_type |-> ""],
     region |-> <<>>, predictedLevel |-> <<>>, status |-> 0, details |-> <<>>]

\* Math.min(...forecasts.map(f => f.predicted_level)) of a non-empty series.
RECURSIVE MathMin(_)
MathMin(levels) ==
    IF Len(levels) = 1 THEN levels[1]
    ELSE LET m == MathMin(Tail(levels))
         IN IF levels[1] < m THEN levels[1] ELSE m

\* region.aquifer_area_m2 || 1000000
AquiferArea(region) ==
    IF region.aquifer_area_m2 # 0 THEN region.aquifer_area_m2 ELSE 1000000

\* region.specific_yield || 0.15, in hundredths
SpecificYield(region) ==
    IF region.specific_yield # 0 THEN region.specific_yield ELSE 15

\* A level in decimetres over the common denominator 10 * area * sy (sy in
\* hundredths) of the Safe Yield check: level_m = LevelScaled / (10 * area * sy).
LevelScaled(level, region) == level * AquiferArea(region) * SpecificYield(region)

\* A drop that adds up the extractions already logged.
EstimatedDropCumulative(volume_liters) == volume_liters * (Len(ExtractionLog) + 1)

\* estimatedDrop = (volume_liters / 1000.0) / (area * sy) over the same
\* denominator: volume_liters / (10 * area * syHundredths).
EstimatedDropScaled(volume_liters) == volume_liters

\* finalLevel = predictedLevel - estimatedDrop
FinalLevelScaled(predictedLevel, volume_liters, region) ==
    LevelScaled(predictedLevel, region) - EstimatedDropScaled(volume_liters)

\* A check that also blocks a final level equal to the critical level.
UnsafeYieldInclusive(predictedLevel, volume_liters, region) ==
    FinalLevelScaled(predictedLevel, volume_liters, region)
        <= LevelScaled(region.critical_water_level_m, region)

\* if (finalLevel < region.critical_water_level_m)
UnsafeYield(predictedLevel, volume_liters, region) ==
    FinalLevelScaled(predictedLevel, volume_liters, region)
        < LevelScaled(region.critical_water_level_m, region)

\* ExtractionSchema: volume_liters Number min 0, usage_type required enum.
ExtractionSchemaValid(doc) ==
    /\ doc.volume_liters >= 0
    /\ doc.usage_type \in {"irrigation", "industrial", "domestic"}

\* res.status(...).json(...) and next(error) end the request.
Respond(i, status) == [ext[i] EXCEPT !.pc = "done", !.status = status]

\* createLog up to await Region.findOne: the basic validation.
createLogStart(i, body) ==
    /\ ext[i].pc = "idle"
    /\ ext' = [ext EXCEPT ![i] =
                 IF body.region_id = "" \/ body.volume_liters = 0
                 THEN [Respond(i, 400) EXCEPT !.handler = "createLog", !.body = body]
                 ELSE [@ EXCEPT !.pc = "findOne", !.handler = "createLog", !.body = body]]
    /\ UNCHANGED <<Region, Well, storeVars, ExtractionLog, forecastSvc, ingestVars, jobVars, opVars>>

\* const region = await Region.findOne({ region_id }); if (!region) 404
createLogFindOne(i) ==
    /\ ext[i].pc = "findOne" /\ ext[i].handler = "createLog"
    /\ ext' = [ext EXCEPT ![i] =
                 IF ext[i].body.region_id \notin DOMAIN Region
                 THEN Respond(i, 404)
                 ELSE [@ EXCEPT !.pc = "axios", !.region = <<Region[ext[i].body.region_id]>>]]
    /\ UNCHANGED <<Region, Well, storeVars, ExtractionLog, forecastSvc, ingestVars, jobVars, opVars>>

\* A catch block that passes the forecast error on to next(error).
ForecastCatchRethrow(i) == Respond(i, 500)

\* catch (err) { console.warn(...) }: the forecast error is swallowed and the
\* request goes on with predictedLevel = null.
ForecastCatch(i) == [ext[i] EXCEPT !.pc = "create"]

\* A details payload without the physics_used entry.
DenialDetailsWithoutPhysics(predictedLevel, volume_liters, region) ==
    [reason |-> "Groundwater levels critically low.",
     predicted_level_next_7d |-> predictedLevel,
     impact_of_extraction |->
         [num |-> 0 - EstimatedDropScaled(volume_liters),
          den |-> 10 * AquiferArea(region) * SpecificYield(region)],
     critical_limit |-> region.critical_water_level_m]

\* The details object of the 409 response; impact_of_extraction = -estimatedDrop
\* is kept as a fraction (decimetres).
DenialDetails(predictedLevel, volume_liters, region) ==
    [reason |-> "Groundwater levels critically low.",
     predicted_level_next_7d |-> predictedLevel,
     impact_of_extraction |->
         [num |-> 0 - EstimatedDropScaled(volume_liters),
          den |-> 10 * AquiferArea(region) * SpecificYield(region)],
     critical_limit |-> region.critical_water_level_m,
     physics_used |-> [area_m2 |-> AquiferArea(region),
                       specific_yield |-> SpecificYield(region)]]

\* A Safe Yield block that approves one request per region at a time: a
\* request is denied while another request for its region is approved.
createLogSafeYieldExclusive(i) ==
    /\ ext[i].pc = "axios"
    /\ LET region == ext[i].region[1]
           volume_liters == ext[i].body.volume_liters
           predictedLevel ==
               IF Len(forecastSvc.data) > 0 THEN <<MathMin(forecastSvc.data)>> ELSE <<>>
           held == \E j \in 1..NReq :
                       /\ j # i /\ ext[j].body.region_id = ext[i].body.region_id
                       /\ ext[j].pc = "create" \/ (ext[j].pc = "done" /\ ext[j].status = 201)
       IN ext' = [ext EXCEPT ![i] =
                    IF ~forecastSvc.ok
                    THEN ForecastCatch(i)
                    ELSE IF predictedLevel # <<>>
                            /\ (held \/ UnsafeYield(predictedLevel[1], volume_liters, region))
                    THEN [Respond(i, 409) EXCEPT
                            !.predictedLevel = predictedLevel,
                            !.details = <<DenialDetails(predictedLevel[1], volume_liters, region)>>]
                    ELSE [@ EXCEPT !.pc = "create", !.predictedLevel = predictedLevel]]
    /\ UNCHANGED <<Region, Well, storeVars, ExtractionLog, forecastSvc, ingestVars, jobVars, opVars>>

\* The Safe Yield block: the forecast call returns or throws, predictedLevel
\* is the minimum of a non-empty series, and an unsafe final level is
\* answered 409 with the details payload.
createLogSafeYield(i) ==
    /\ ext[i].pc = "axios"
    /\ LET region == ext[i].region[1]
           volume_liters == ext[i].body.volume_liters
           predictedLevel ==
               IF Len(forecastSvc.data) > 0 THEN <<MathMin(forecastSvc.data)>> ELSE <<>>
       IN ext' = [ext EXCEPT ![i] =
                    IF ~forecastSvc.ok
                    THEN ForecastCatch(i)
                    ELSE IF predictedLevel # <<>>
                            /\ UnsafeYield(predictedLevel[1], volume_liters, region)
                    THEN [Respond(i, 409) EXCEPT
                            !.predictedLevel = predictedLevel,
                            !.details = <<DenialDetails(predictedLevel[1], volume_liters, region)>>]
                    ELSE [@ EXCEPT !.pc = "create", !.predictedLevel = predictedLevel]]
    /\ UNCHANGED <<Region, Well, storeVars, ExtractionLog, forecastSvc, ingestVars, jobVars, opVars>>

\* const log = await ExtractionLog.create({...}); res.status(201); a
\* validation error goes to next(error), answered 500 by the error handler.
createLogCreate(i) ==
    /\ ext[i].pc = "create" /\ ext[i].handler = "createLog"
    /\ LET log == [region_id |-> ext[i].body.region_id,
                   volume_liters |-> ext[i].body.volume_liters,
                   usage_type |-> ext[i].body.usage_type]
       IN IF ExtractionSchemaValid(log)
          THEN /\ ExtractionLog' = Append(ExtractionLog, log)
               /\ ext' = [ext EXCEPT ![i] = Respond(i, 201)]
          ELSE /\ ext' = [ext EXCEPT ![i] = Respond(i, 500)]
               /\ UNCHANGED ExtractionLog
    /\ UNCHANGED <<Region, Well, storeVars, forecastSvc, ingestVars, jobVars, opVars>>

createLog(i) ==
    \/ \E body \in ExtractionBodies : createLogStart(i, body)
    \/ createLogFindOne(i)
    \/ createLogSafeYield(i)
    \/ createLogCreate(i)

\* logExtraction up to await Region.findOne; extraction.routes.js binds
\* POST / to this handler.
logExtractionStart(i, body) ==
    /\ ext[i].pc = "idle"
    /\ ext' = [ext EXCEPT ![i] = [@ EXCEPT !.pc = "findOne", !.handler = "logExtraction",
                                           !.body = body]]
    /\ UNCHANGED <<Region, Well, storeVars, ExtractionLog, forecastSvc, ingestVars, jobVars, opVars>>

\* A lookup whose result is not tested.
logExtractionFindOneUnchecked(i) ==
    /\ ext[i].pc = "findOne" /\ ext[i].handler = "logExtraction"
    /\ ext' = [ext EXCEPT ![i] = [@ EXCEPT !.pc = "create"]]
    /\ UNCHANGED <<Region, Well, storeVars, ExtractionLog, forecastSvc, ingestVars, jobVars, opVars>>

\* const region = await Region.findOne({ region_id }); if (!region) 404
logExtractionFindOne(i) ==
    /\ ext[i].pc = "findOne" /\ ext[i].handler = "logExtraction"
    /\ ext' = [ext EXCEPT ![i] =
                 IF ext[i].body.region_id \notin DOMAIN Region
                 THEN Respond(i, 404)
                 ELSE [@ EXCEPT !.pc = "create", !.region = <<Region[ext[i].body.region_id]>>]]
    /\ UNCHANGED <<Region, Well, storeVars, ExtractionLog, forecastSvc, ingestVars, jobVars, opVars>>

\* const log = await ExtractionLog.create({...}); res.status(201)
logExtractionCreate(i) ==
    /\ ext[i].pc = "create" /\ ext[i].handler = "logExtraction"
    /\ LET log == [region_id |-> ext[i].body.region_id,
                   volume_liters |-> ext[i].body.volume_liters,
                   usage_type |-> ext[i].body.usage_type]
       IN IF ExtractionSchemaValid(log)
          THEN /\ ExtractionLog' = Append(ExtractionLog, log)
               /\ ext' = [ext EXCEPT ![i] = Respond(i, 201)]
          ELSE /\ ext' = [ext EXCEPT ![i] = Respond(i, 500)]
               /\ UNCHANGED ExtractionLog
    /\ UNCHANGED <<Region, Well, storeVars, forecastSvc, ingestVars, jobVars, opVars>>

logExtraction(i) ==
    \/ \E body \in ExtractionBodies : logExtractionStart(i, body)
    \/ logExtractionFindOne(i)
    \/ logExtractionCreate(i)

-----------------------------------------------------------------------------
(* The job orchestrator: POST /pipeline/trigger and GET /pipeline/status.  *)
(* An action is the completion of one awaited operation together with the *)
(* code that runs up to the next await.                                    *)

\* JobSchema.job_type enum.
JobTypes == {"daily_summary", "training", "forecast", "full_pipeline"}

\* JobSchema.status enum.
JobStatuses == {"pending", "processing", "completed", "failed"}

\* Values of req.body.type: absent, the four job types, and one outside them.
TriggerTypes == JobTypes \cup {"undefined", "bogus"}

\* const { date, type = 'full_pipeline' } = req.body
TypeOrDefault(type) == IF type = "undefined" THEN "full_pipeline" ELSE type

\* The _id values MongoDB hands out, in order of creation.
ObjectIds == <<"j1", "j2", "j3", "j4", "j5", "j6">>

\* The _id of the next created Job.
NewObjectId == ObjectIds[Cardinality(DOMAIN Job) + 1]

\* Values of req.params.id: ids of jobs, a well-formed id no job has, and a
\* string that is not an ObjectId.
StatusIds == {"j1", "j2", "j9", "abc"}

\* Mongoose casts the id of findById to ObjectId; the cast of "abc" fails.
IsObjectId(id) == id # "abc"

IdleTrig ==
    [pc |-> "idle", handler |-> "none", type |-> "undefined", job |-> <<>>, status |-> 0,
     err |-> <<>>]

IdleQry == [pc |-> "idle", id |-> "", status |-> 0, data |-> <<>>]

\* The errors axios.post can throw: without a response (network error,
\* timeout), and for a non-2xx response whose body has no detail, an empty
\* one, or a detail text.
CallErrors ==
    {[detail |-> "undefined", message |-> "Request failed"],
     [detail |-> "", message |-> "Request failed"],
     [detail |-> "Upstream detail", message |-> "Request failed"]}

\* err.response?.data?.detail || err.message
ErrorText(err) == IF Falsy(err.detail) THEN err.message ELSE err.detail

\* A mapping without the line for 'forecast'.
EndpointWithoutForecast(type) ==
    IF type = "training" THEN "/jobs/train"
    ELSE IF type = "daily_summary" THEN "/jobs/daily-summary"
    ELSE "/jobs/pipeline"

\* let endpoint = '/jobs/pipeline'; if (type === ...) endpoint = ...
Endpoint(type) ==
    IF type = "forecast" THEN "/jobs/forecast"
    ELSE IF type = "training" THEN "/jobs/train"
    ELSE IF type = "daily_summary" THEN "/jobs/daily-summary"
    ELSE "/jobs/pipeline"

\* An update addressed to the job created last, whoever created it.
UpdateTargetLatest(i) == ObjectIds[Cardinality(DOMAIN Job)]

\* Job.findByIdAndUpdate(newJob._id, ...): the id held by the request's closure.
UpdateTarget(i) == trig[i].job[1]

\* triggerPipeline up to await Job.create.
triggerPipelineStart(i, type) ==
    /\ trig[i].pc = "idle"
    /\ trig' = [trig EXCEPT ![i] = [@ EXCEPT !.pc = "create", !.handler = "triggerPipeline",
                                             !.type = TypeOrDefault(type)]]
    /\ UNCHANGED <<Job, calls, qry>>
    /\ UNCHANGED <<Region, Well, storeVars, ingestVars, extVars, opVars>>

\* Job.create resolves: a type outside the enum is a validation error passed
\* to next(error); otherwise the pending Job exists, 202 is sent and the
\* background block starts with its first update.
triggerPipelineCreate(i) ==
    /\ trig[i].pc = "create"
    /\ IF trig[i].type \in JobTypes
       THEN /\ Job' = Job @@ (NewObjectId :>
                        [job_type |-> trig[i].type, status |-> "pending",
                         result |-> <<>>, error |-> <<>>, completed_at |-> <<>>])
            /\ trig' = [trig EXCEPT ![i] = [@ EXCEPT !.pc = "processing", !.status = 202,
                                                     !.job = <<NewObjectId>>]]
       ELSE /\ trig' = [trig EXCEPT ![i] = [@ EXCEPT !.pc = "done", !.status = 500]]
            /\ UNCHANGED Job
    /\ UNCHANGED <<calls, qry>>
    /\ UNCHANGED <<Region, Well, storeVars, ingestVars, extVars, opVars>>

\* await Job.findByIdAndUpdate(newJob._id, { status: 'processing' }) resolves
\* and axios.post to the endpoint of the type is issued; a rejected update
\* goes to the catch block.
bgProcessing(i, dbOk) ==
    /\ trig[i].pc = "processing"
    /\ IF dbOk
       THEN /\ Job' = [Job EXCEPT ![UpdateTarget(i)].status = "processing"]
            /\ calls' = [calls EXCEPT ![i] = Append(@, Endpoint(trig[i].type))]
            /\ trig' = [trig EXCEPT ![i].pc = "axios"]
       ELSE /\ trig' = [trig EXCEPT ![i] = [@ EXCEPT !.pc = "failed", !.err = <<"MongoError">>]]
            /\ UNCHANGED <<Job, calls>>
    /\ UNCHANGED qry
    /\ UNCHANGED <<Region, Well, storeVars, ingestVars, extVars, opVars>>

\* A background block that calls the service again after a failed call.
bgCallReturnRetry(i, ok) ==
    /\ trig[i].pc = "axios" /\ trig[i].handler = "triggerPipeline"
    /\ IF ok
       THEN /\ trig' = [trig EXCEPT ![i].pc = "completed"]
            /\ UNCHANGED calls
       ELSE /\ calls' = [calls EXCEPT ![i] = Append(@, Endpoint(trig[i].type))]
            /\ trig' = [trig EXCEPT ![i] = [@ EXCEPT !.pc = "failed",
                                                     !.err = <<"Request failed">>]]
    /\ UNCHANGED <<Job, qry>>
    /\ UNCHANGED <<Region, Well, storeVars, ingestVars, extVars, opVars>>

\* await axios.post(...) returns: a 2xx goes on to the 'completed' update,
\* anything else (network error, non-2xx, timeout) to the catch block with
\* the error text the block will store.
bgCallReturn(i, ok) ==
    /\ trig[i].pc = "axios" /\ trig[i].handler = "triggerPipeline"
    /\ \E err \in CallErrors :
          trig' = [trig EXCEPT ![i] = IF ok THEN [@ EXCEPT !.pc = "completed"]
                                      ELSE [@ EXCEPT !.pc = "failed",
                                                     !.err = <<ErrorText(err)>>]]
    /\ UNCHANGED <<Job, calls, qry>>
    /\ UNCHANGED <<Region, Well, storeVars, ingestVars, extVars, opVars>>

\* A 'completed' update that sets no completion time.
bgCompletedWithoutTimestamp(i, dbOk) ==
    /\ trig[i].pc = "completed"
    /\ IF dbOk
       THEN /\ Job' = [Job EXCEPT ![UpdateTarget(i)].status = "completed",
                                  ![UpdateTarget(i)].result = <<"response.data">>]
            /\ trig' = [trig EXCEPT ![i].pc = "done"]
       ELSE /\ trig' = [trig EXCEPT ![i] = [@ EXCEPT !.pc = "failed", !.err = <<"MongoError">>]]
            /\ UNCHANGED Job
    /\ UNCHANGED <<calls, qry>>
    /\ UNCHANGED <<Region, Well, storeVars, ingestVars, extVars, opVars>>

\* await Job.findByIdAndUpdate(newJob._id, { status: 'completed', result,
\* completed_at }) resolves; a rejected update goes to the catch block.
bgCompleted(i, dbOk) ==
    /\ trig[i].pc = "completed"
    /\ IF dbOk
       THEN /\ Job' = [Job EXCEPT ![UpdateTarget(i)].status = "completed",
                                  ![UpdateTarget(i)].result = <<"response.data">>,
                                  ![UpdateTarget(i)].completed_at = <<"now">>]
            /\ trig' = [trig EXCEPT ![i].pc = "done"]
       ELSE /\ trig' = [trig EXCEPT ![i] = [@ EXCEPT !.pc = "failed", !.err = <<"MongoError">>]]
            /\ UNCHANGED Job
    /\ UNCHANGED <<calls, qry>>
    /\ UNCHANGED <<Region, Well, storeVars, ingestVars, extVars, opVars>>

\* A catch block that puts the job back to 'pending'.
bgFailedResetsPending(i, dbOk) ==
    /\ trig[i].pc = "failed"
    /\ IF dbOk
       THEN Job' = [Job EXCEPT ![UpdateTarget(i)].status = "pending",
                               ![UpdateTarget(i)].error = trig[i].err,
                               ![UpdateTarget(i)].completed_at = <<"now">>]
       ELSE UNCHANGED Job
    /\ trig' = [trig EXCEPT ![i].pc = "done"]
    /\ UNCHANGED <<calls, qry>>
    /\ UNCHANGED <<Region, Well, storeVars, ingestVars, extVars, opVars>>

\* catch (err): await Job.findByIdAndUpdate(newJob._id, { status: 'failed',
\* error, completed_at }) resolves; if this update is rejected too the block ends with an
\* unhandled rejection and the Job keeps the status it had.
bgFailed(i, dbOk) ==
    /\ trig[i].pc = "failed"
    /\ IF dbOk
       THEN Job' = [Job EXCEPT ![UpdateTarget(i)].status = "failed",
                               ![UpdateTarget(i)].error = trig[i].err,
                               ![UpdateTarget(i)].completed_at = <<"now">>]
       ELSE UNCHANGED Job
    /\ trig' = [trig EXCEPT ![i].pc = "done"]
    /\ UNCHANGED <<calls, qry>>
    /\ UNCHANGED <<Region, Well, storeVars, ingestVars, extVars, opVars>>

triggerPipeline(i) ==
    \/ \E type \in TriggerTypes : triggerPipelineStart(i, type)
    \/ triggerPipelineCreate(i)
    \/ \E dbOk \in BOOLEAN : bgProcessing(i, dbOk)
    \/ \E ok \in BOOLEAN : bgCallReturn(i, ok)
    \/ \E dbOk \in BOOLEAN : bgCompleted(i, dbOk)
    \/ \E dbOk \in BOOLEAN : bgFailed(i, dbOk)

\* app.post('/api/v1/pipeline/trigger') of app.js up to await fetch: the
\* request is forwarded to the orchestrator service; req.body is not read.
pipelineTriggerProxyStart(i) ==
    /\ trig[i].pc = "idle"
    /\ trig' = [trig EXCEPT ![i] = [@ EXCEPT !.pc = "fetch", !.handler = "proxy"]]
    /\ calls' = [calls EXCEPT ![i] = Append(@, "/pipeline/trigger")]
    /\ UNCHANGED <<Job, qry>>
    /\ UNCHANGED <<Region, Well, storeVars, ingestVars, extVars, opVars>>

\* await fetch(...) returns: 200 with the upstream body, or 502.
pipelineTriggerProxyReturn(i, ok) ==
    /\ trig[i].pc = "fetch"
    /\ trig' = [trig EXCEPT ![i] = [@ EXCEPT !.pc = "done",
                                             !.status = IF ok THEN 200 ELSE 502]]
    /\ UNCHANGED <<Job, calls, qry>>
    /\ UNCHANGED <<Region, Well, storeVars, ingestVars, extVars, opVars>>

pipelineTriggerProxy(i) ==
    \/ pipelineTriggerProxyStart(i)
    \/ \E ok \in BOOLEAN : pipelineTriggerProxyReturn(i, ok)

\* getJobStatus up to await Job.findById(req.params.id).
getJobStatusStart(id) ==
    /\ qry.pc \in {"idle", "done"}
    /\ qry' = [IdleQry EXCEPT !.pc = "findById", !.id = id]
    /\ UNCHANGED <<Job, trig, calls>>
    /\ UNCHANGED <<Region, Well, storeVars, ingestVars, extVars, opVars>>

\* Job.findById resolves or rejects: a CastError goes to next(error) and is
\* answered 500, no document is 404, a document is returned with 200.
getJobStatusFindById ==
    /\ qry.pc = "findById"
    /\ qry' = IF ~IsObjectId(qry.id)
              THEN [qry EXCEPT !.pc = "done", !.status = 500]
              ELSE IF qry.id \notin DOMAIN Job
              THEN [qry EXCEPT !.pc = "done", !.status = 404]
              ELSE [qry EXCEPT !.pc = "done", !.status = 200, !.data = <<Job[qry.id]>>]
    /\ UNCHANGED <<Job, trig, calls>>
    /\ UNCHANGED <<Region, Well, storeVars, ingestVars, extVars, opVars>>

getJobStatus ==
    \/ \E id \in StatusIds : getJobStatusStart(id)
    \/ getJobStatusFindById

-----------------------------------------------------------------------------
(* Single inserts and the write handlers of the Region and Well            *)
(* collections.  The Region and Well documents of the model carry the      *)
(* fields the ingestion and extraction code reads; name, state,            *)
(* critical_level, depth and status are not among them.                    *)

IdleDW == [pc |-> "idle", id |-> "", status |-> 0]

IdleRD ==
    [pc |-> "idle",
     body |-> [well_id |-> "", region_id |-> "", water_level |-> "undefined", source |-> ""],
     status |-> 0]

IdleRF == [pc |-> "idle", body |-> [region_id |-> "", amount_mm |-> "undefined"], status |-> 0]

\* Values of req.params.id of DELETE /wells/:id.
DeleteWellIds == {"w1", "w9"}

\* Bodies of POST /water-readings; water_level is a JSON number (decimetres),
\* a JSON string, or absent.
ReadingBodies ==
    {[well_id |-> "w1", region_id |-> "r1", water_level |-> "123", source |-> "sensor"],
     [well_id |-> "w1", region_id |-> "r9", water_level |-> "123", source |-> "sensor"],
     [well_id |-> "w1", region_id |-> "r1", water_level |-> "123", source |-> "bogus"],
     [well_id |-> "w1", region_id |-> "r1", water_level |-> "'123'", source |-> "sensor"]}

\* Bodies of POST /rainfall; amount_mm is a JSON number or absent.
RainfallBodies ==
    {[region_id |-> "r1", amount_mm |-> "5"],
     [region_id |-> "r1", amount_mm |-> "-3"],
     [region_id |-> "r9", amount_mm |-> "5"]}

\* typeof v === 'number' of a JSON value.
TypeofNumber(v) == v \in {"123", "5", "-3"}

\* The number a JSON number denotes.
NumberValue(v) ==
    CASE v = "123" -> 123
      [] v = "5" -> 5
      [] v = "-3" -> 0 - 3
      [] OTHER -> 0

\* WaterReading.countDocuments({ well_id: id })
CountReadings(id) == Cardinality({k \in 1..Len(WaterReading) : WaterReading[k].well_id = id})

\* deleteWell up to await WaterReading.countDocuments.
deleteWellStart(id) ==
    /\ dw.pc \in {"idle", "done"}
    /\ dw' = [IdleDW EXCEPT !.pc = "count", !.id = id]
    /\ UNCHANGED <<rd, rf, crud, get>>
    /\ UNCHANGED <<Region, Well, storeVars, ingestVars, extVars, jobVars>>

\* countDocuments resolves: a positive count is answered 409, otherwise
\* Well.findOneAndDelete is issued.
deleteWellCount ==
    /\ dw.pc = "count"
    /\ dw' = IF CountReadings(dw.id) > 0
             THEN [dw EXCEPT !.pc = "done", !.status = 409]
             ELSE [dw EXCEPT !.pc = "delete"]
    /\ UNCHANGED <<rd, rf, crud, get>>
    /\ UNCHANGED <<Region, Well, storeVars, ingestVars, extVars, jobVars>>

\* Well.findOneAndDelete({ well_id: id }) resolves: 200, or 404 when no well
\* was found.
deleteWellDelete ==
    /\ dw.pc = "delete"
    /\ LET found == {w \in Well : w.well_id = dw.id}
       IN /\ Well' = Well \ found
          /\ dw' = [dw EXCEPT !.pc = "done", !.status = IF found = {} THEN 404 ELSE 200]
    /\ UNCHANGED <<rd, rf, crud, get>>
    /\ UNCHANGED <<Region, storeVars, ingestVars, extVars, jobVars>>

deleteWell ==
    \/ \E id \in DeleteWellIds : deleteWellStart(id)
    \/ deleteWellCount
    \/ deleteWellDelete

\* createReading up to await Region.findOne: the validation of the body.
createReadingStart(body) ==
    /\ rd.pc \in {"idle", "done"}
    /\ Len(WaterReading) < MaxDocs
    /\ rd' = IF \/ Falsy(body.well_id) \/ Falsy(body.region_id)
                \/ body.water_level = "undefined" \/ Falsy(body.source)
                \/ ~TypeofNumber(body.water_level)
             THEN [pc |-> "done", body |-> body, status |-> 400]
             ELSE [pc |-> "findRegion", body |-> body, status |-> 0]
    /\ UNCHANGED <<dw, rf, crud, get>>
    /\ UNCHANGED <<Region, Well, storeVars, ingestVars, extVars, jobVars>>

\* Region.findOne resolves: 404 without a region, 409 for an inactive one.
createReadingFindRegion ==
    /\ rd.pc = "findRegion"
    /\ rd' = IF rd.body.region_id \notin DOMAIN Region
             THEN [rd EXCEPT !.pc = "done", !.status = 404]
             ELSE IF ~Region[rd.body.region_id].is_active
             THEN [rd EXCEPT !.pc = "done", !.status = 409]
             ELSE [rd EXCEPT !.pc = "findWell"]
    /\ UNCHANGED <<dw, rf, crud, get>>
    /\ UNCHANGED <<Region, Well, storeVars, ingestVars, extVars, jobVars>>

\* Well.findOne({ well_id, region_id }) resolves: 404 without a well.
createReadingFindWell ==
    /\ rd.pc = "findWell"
    /\ rd' = IF \E w \in Well : w.well_id = rd.body.well_id /\ w.region_id = rd.body.region_id
             THEN [rd EXCEPT !.pc = "create"]
             ELSE [rd EXCEPT !.pc = "done", !.status = 404]
    /\ UNCHANGED <<dw, rf, crud, get>>
    /\ UNCHANGED <<Region, Well, storeVars, ingestVars, extVars, jobVars>>

\* WaterReading.create resolves: 201, or a validation error passed to
\* next(error).
createReadingCreate ==
    /\ rd.pc = "create"
    /\ LET reading == [well_id |-> rd.body.well_id,
                       region_id |-> rd.body.region_id,
                       water_level |-> NumberValue(rd.body.water_level),
                       source |-> rd.body.source,
                       timestamp |-> "now"]
       IN IF WaterReadingSchemaValid(reading)
          THEN /\ WaterReading' = Append(WaterReading, reading)
               /\ rd' = [rd EXCEPT !.pc = "done", !.status = 201]
          ELSE /\ rd' = [rd EXCEPT !.pc = "done", !.status = 500]
               /\ UNCHANGED WaterReading
    /\ UNCHANGED <<dw, rf, crud, get>>
    /\ UNCHANGED <<Region, Well, Rainfall, ingestVars, extVars, jobVars>>

createReading ==
    \/ \E body \in ReadingBodies : createReadingStart(body)
    \/ createReadingFindRegion
    \/ createReadingFindWell
    \/ createReadingCreate

\* createRainfall up to await Region.findOne: the validation of the body.
createRainfallStart(body) ==
    /\ rf.pc \in {"idle", "done"}
    /\ Len(Rainfall) < MaxDocs
    /\ rf' = IF \/ Falsy(body.region_id) \/ body.amount_mm = "undefined"
                \/ ~TypeofNumber(body.amount_mm) \/ NumberValue(body.amount_mm) < 0
             THEN [pc |-> "done", body |-> body, status |-> 400]
             ELSE [pc |-> "findRegion", body |-> body, status |-> 0]
    /\ UNCHANGED <<dw, rd, crud, get>>
    /\ UNCHANGED <<Region, Well, storeVars, ingestVars, extVars, jobVars>>

\* Region.findOne resolves: 404 without a region, 409 for an inactive one.
createRainfallFindRegion ==
    /\ rf.pc = "findRegion"
    /\ rf' = IF rf.body.region_id \notin DOMAIN Region
             THEN [rf EXCEPT !.pc = "done", !.status = 404]
             ELSE IF ~Region[rf.body.region_id].is_active
             THEN [rf EXCEPT !.pc = "done", !.status = 409]
             ELSE [rf EXCEPT !.pc = "create"]
    /\ UNCHANGED <<dw, rd, crud, get>>
    /\ UNCHANGED <<Region, Well, storeVars, ingestVars, extVars, jobVars>>

\* Rainfall.create resolves with source 'manual' and the current time: 201.
createRainfallCreate ==
    /\ rf.pc = "create"
    /\ Rainfall' = Append(Rainfall, [region_id |-> rf.body.region_id,
                                     amount_mm |-> NumberValue(rf.body.amount_mm),
                                     source |-> "manual",
                                     timestamp |-> "now"])
    /\ rf' = [rf EXCEPT !.pc = "done", !.status = 201]
    /\ UNCHANGED <<dw, rd, crud, get>>
    /\ UNCHANGED <<Region, Well, WaterReading, ingestVars, extVars, jobVars>>

createRainfall ==
    \/ \E body \in RainfallBodies : createRainfallStart(body)
    \/ createRainfallFindRegion
    \/ createRainfallCreate

\* createRegion: 400 without a name, 409 when a region of that name and state
\* exists, otherwise Region.create with a new region_id, is_active true and
\* the defaults of the schema.  The model's one name is that of region "r3".
createRegion(name) ==
    /\ IF Falsy(name)
       THEN crud' = 400 /\ UNCHANGED Region
       ELSE IF "r3" \in DOMAIN Region
       THEN crud' = 409 /\ UNCHANGED Region
       ELSE /\ crud' = 201
            /\ Region' = Region @@ ("r3" :> [is_active |-> TRUE, critical_water_level_m |-> 100,
                                             aquifer_area_m2 |-> 0, specific_yield |-> 0])
    /\ UNCHANGED <<dw, rd, rf, get>>
    /\ UNCHANGED <<Well, storeVars, ingestVars, extVars, jobVars>>

\* updateRegion: Region.findOneAndUpdate({ region_id }, { $set: updateFields })
\* with name, critical_level and the geological fields; 404 without a region.
updateRegion(id) ==
    /\ crud' = IF id \in DOMAIN Region THEN 200 ELSE 404
    /\ UNCHANGED <<dw, rd, rf, get>>
    /\ UNCHANGED <<Region, Well, storeVars, ingestVars, extVars, jobVars>>

\* createWell: 404 without the region, 409 for an inactive region, otherwise
\* Well.create with a new well_id.
createWell(region_id) ==
    /\ IF region_id \notin DOMAIN Region
       THEN crud' = 404 /\ UNCHANGED Well
       ELSE IF ~Region[region_id].is_active
       THEN crud' = 409 /\ UNCHANGED Well
       ELSE /\ \A w \in Well : w.well_id # "w3"
            /\ crud' = 201
            /\ Well' = Well \cup {[well_id |-> "w3", region_id |-> region_id]}
    /\ UNCHANGED <<dw, rd, rf, get>>
    /\ UNCHANGED <<Region, storeVars, ingestVars, extVars, jobVars>>

\* updateWell: 400 for a status outside the enum, otherwise
\* Well.findOneAndUpdate({ well_id }, { $set: { status, depth } }); 404
\* without a well.
updateWell(id, status) ==
    /\ crud' = IF ~Falsy(status) /\ status \notin {"active", "inactive", "maintenance"}
               THEN 400
               ELSE IF \E w \in Well : w.well_id = id THEN 200 ELSE 404
    /\ UNCHANGED <<dw, rd, rf, get>>
    /\ UNCHANGED <<Region, Well, storeVars, ingestVars, extVars, jobVars>>

-----------------------------------------------------------------------------
(* The filtered reads: getRainfall and getReadings.                        *)

\* const MAX_LIMIT = 2000
MAX_LIMIT == 2000

IdleGet ==
    [pc |-> "idle", handler |-> "none", limit |-> "undefined",
     effectiveLimit |-> [nan |-> FALSE, val |-> 0], matching |-> 0, status |-> 0, count |-> 0]

\* Values of req.query.limit: absent, empty, and the texts of the model.
LimitParams == {"undefined", "", "0", "-5", "-5000", "abc", "100", "2000", "2001", "5000"}

\* How many stored documents match the filters of the request.
MatchCounts == {0, 1, 499, 500, 501, 2000, 2001, 6000}

\* parseInt on the texts of the model.
ParseInt(txt) ==
    CASE txt = "0" -> [nan |-> FALSE, val |-> 0]
      [] txt = "-5" -> [nan |-> FALSE, val |-> 0 - 5]
      [] txt = "-5000" -> [nan |-> FALSE, val |-> 0 - 5000]
      [] txt = "100" -> [nan |-> FALSE, val |-> 100]
      [] txt = "2000" -> [nan |-> FALSE, val |-> 2000]
      [] txt = "2001" -> [nan |-> FALSE, val |-> 2001]
      [] txt = "5000" -> [nan |-> FALSE, val |-> 5000]
      [] OTHER -> [nan |-> TRUE, val |-> 0]

\* const effectiveLimit = limit ? Math.min(parseInt(limit), MAX_LIMIT) : 500;
\* Math.min of NaN is NaN.
EffectiveLimit(limit) ==
    IF Falsy(limit) THEN [nan |-> FALSE, val |-> 500]
    ELSE IF IsNaN(ParseInt(limit)) THEN ParseInt(limit)
    ELSE [nan |-> FALSE,
          val |-> IF ParseInt(limit).val < MAX_LIMIT THEN ParseInt(limit).val ELSE MAX_LIMIT]

\* The numbers of documents find(query).limit(n) can return out of matching
\* ones; -1 stands for a rejected query.  limit(0) is no limit; a negative
\* limit asks for one batch of at most -n documents, which the server may cut
\* at its default first batch of 101; a NaN limit is rejected by the server or
\* taken as no limit.
CursorCounts(n, matching) ==
    LET Least(a, b) == IF a < b THEN a ELSE b
    IN IF n.nan THEN {0 - 1, matching}
       ELSE IF n.val = 0 THEN {matching}
       ELSE IF n.val < 0 THEN {Least(matching, 0 - n.val), Least(matching, Least(0 - n.val, 101))}
       ELSE {Least(matching, n.val)}

\* getRainfall / getReadings up to await Model.find(query).sort().limit().
getStart(handler, limit) ==
    /\ get.pc \in {"idle", "done"}
    /\ get' = [IdleGet EXCEPT !.pc = "find", !.handler = handler, !.limit = limit,
                               !.effectiveLimit = EffectiveLimit(limit)]
    /\ UNCHANGED <<dw, rd, rf, crud>>
    /\ UNCHANGED <<Region, Well, storeVars, ingestVars, extVars, jobVars>>

\* The query resolves with the documents, answered 200 with their count, or
\* rejects and goes to next(error).
getFind(matching, count) ==
    /\ get.pc = "find"
    /\ get' = IF count < 0
              THEN [get EXCEPT !.pc = "done", !.matching = matching, !.status = 500]
              ELSE [get EXCEPT !.pc = "done", !.matching = matching, !.status = 200,
                               !.count = count]
    /\ UNCHANGED <<dw, rd, rf, crud>>
    /\ UNCHANGED <<Region, Well, storeVars, ingestVars, extVars, jobVars>>

getRainfall ==
    \/ \E limit \in LimitParams : getStart("getRainfall", limit)
    \/ \E matching \in MatchCounts : \E count \in CursorCounts(get.effectiveLimit, matching) :
          get.handler = "getRainfall" /\ getFind(matching, count)

getReadings ==
    \/ \E limit \in LimitParams : getStart("getReadings", limit)
    \/ \E matching \in MatchCounts : \E count \in CursorCounts(get.effectiveLimit, matching) :
          get.handler = "getReadings" /\ getFind(matching, count)

-----------------------------------------------------------------------------
(* Specifications                                                          *)

InitStores ==
    /\ Region = RegionDocs
    /\ Well = WellDocs
    /\ Rainfall = <<>>
    /\ WaterReading = <<>>
    /\ ExtractionLog = <<>>
    /\ stream = "flowing"
    /\ rowsRead = 0
    /\ results = NoResults
    /\ batch = <<>>
    /\ isFileFormatInvalid = FALSE
    /\ pb = IdlePB
    /\ res = <<>>
    /\ dbFailed = FALSE
    /\ ext = [i \in 1..NReq |-> IdleExt]
    /\ Job = [id \in {} |-> 0]
    /\ trig = [i \in 1..NTrig |-> IdleTrig]
    /\ calls = [i \in 1..NTrig |-> <<>>]
    /\ qry = IdleQry
    /\ dw = IdleDW
    /\ rd = IdleRD
    /\ rf = IdleRF
    /\ crud = 0
    /\ get = IdleGet

\* An upload is being served; service B is down throughout.
InitIngest ==
    /\ InitStores
    /\ kind \in {"rainfall", "readings"}
    /\ header \in {"split", "unsplit"}
    /\ forecastSvc = [ok |-> FALSE, data |-> <<>>]

\* Extraction requests arrive; service B gives one answer throughout.
InitExtract ==
    /\ InitStores
    /\ kind = "rainfall"
    /\ header = "split"
    /\ forecastSvc \in ForecastOutcomes

NextIngest ==
    \/ \E data \in FileRows(kind, header) : RainfallOnData(data)
    \/ RainfallProcessBatchFind
    \/ \E dbOk \in BOOLEAN : RainfallInsertMany(dbOk)
    \/ RainfallOnClose
    \/ \E data \in FileRows(kind, header) : ReadingsOnData(data)
    \/ ReadingsProcessBatchFind
    \/ \E dbOk \in BOOLEAN : ReadingsInsertMany(dbOk)
    \/ ReadingsOnEnd
    \/ \E id \in RegionIds : deleteRegion(id)

SpecIngest == InitIngest /\ [][NextIngest]_vars

NextExtract ==
    \/ \E i \in 1..NReq : createLog(i)
    \/ \E i \in 1..NReq : logExtraction(i)

SpecExtract == InitExtract /\ [][NextExtract]_vars

\* Pipeline triggers and status queries arrive.
InitPipeline ==
    /\ InitStores
    /\ kind = "rainfall"
    /\ header = "split"
    /\ forecastSvc = [ok |-> FALSE, data |-> <<>>]

NextPipeline ==
    \/ \E i \in 1..NTrig : triggerPipeline(i)
    \/ \E i \in 1..NTrig : pipelineTriggerProxy(i)

SpecPipeline == InitPipeline /\ [][NextPipeline]_vars

\* The types of the triggers that run beside the status queries.
StatusTriggerTypes == {"training", "bogus"}

\* Status queries arrive while triggered jobs run.
NextStatus ==
    \/ \E i \in 1..NTrig : \E type \in StatusTriggerTypes : triggerPipelineStart(i, type)
    \/ \E i \in 1..NTrig : triggerPipelineCreate(i)
    \/ \E i \in 1..NTrig : \E dbOk \in BOOLEAN : bgProcessing(i, dbOk)
    \/ \E i \in 1..NTrig : \E ok \in BOOLEAN : bgCallReturn(i, ok)
    \/ \E i \in 1..NTrig : \E dbOk \in BOOLEAN : bgCompleted(i, dbOk)
    \/ \E i \in 1..NTrig : \E dbOk \in BOOLEAN : bgFailed(i, dbOk)
    \/ getJobStatus

SpecStatus == InitPipeline /\ [][NextStatus]_vars

\* Single inserts, deletions of wells and writes of reference data arrive.
NextOps ==
    \/ deleteWell
    \/ createReading
    \/ createRainfall
    \/ \E name \in {"", "N3"} : createRegion(name)
    \/ \E id \in {"r1", "r9"} : updateRegion(id)
    \/ \E id \in RegionIds : deleteRegion(id)
    \/ \E region_id \in {"r1", "r9"} : createWell(region_id)
    \/ \E id \in {"w1", "w9"} : \E status \in {"inactive", "closed"} : updateWell(id, status)

SpecOps == InitPipeline /\ [][NextOps]_vars

\* Filtered reads arrive.
NextQuery ==
    \/ getRainfall
    \/ getReadings

SpecQuery == InitPipeline /\ [][NextQuery]_vars

\* The bodies of the extraction requests that run beside deactivations.
GateBodies ==
    {[region_id |-> "r1", volume_liters |-> 100000, usage_type |-> "irrigation"],
     [region_id |-> "r2", volume_liters |-> 100000, usage_type |-> "domestic"]}

\* Service B is down or answers one series.
InitGate ==
    /\ InitStores
    /\ kind = "rainfall"
    /\ header = "split"
    /\ forecastSvc \in {[ok |-> FALSE, data |-> <<>>], [ok |-> TRUE, data |-> <<105>>]}

\* Extraction requests arrive while regions are deactivated.
NextGate ==
    \/ \E i \in 1..NReq : \E body \in GateBodies : createLogStart(i, body)
    \/ \E i \in 1..NReq : createLogFindOne(i)
    \/ \E i \in 1..NReq : createLogSafeYield(i)
    \/ \E i \in 1..NReq : createLogCreate(i)
    \/ \E i \in 1..NReq : \E body \in GateBodies : logExtractionStart(i, body)
    \/ \E i \in 1..NReq : logExtractionFindOne(i)
    \/ \E i \in 1..NReq : logExtractionCreate(i)
    \/ \E id \in RegionIds : deleteRegion(id)

SpecGate == InitGate /\ [][NextGate]_vars

\* The rows of the upload that runs beside deletions of wells.
WellRows ==
    {GoodReadingRow, [GoodReadingRow EXCEPT !.well_id = "w2", !.region_id = "r2"]}

\* An upload of readings is being served.
InitWells ==
    /\ InitStores
    /\ kind = "readings"
    /\ header = "split"
    /\ forecastSvc = [ok |-> FALSE, data |-> <<>>]

\* Wells are deleted while readings arrive one by one and by upload.
NextWells ==
    \/ deleteWell
    \/ createReadingStart(CHOOSE body \in ReadingBodies :
                              body.region_id = "r1" /\ body.source = "sensor"
                              /\ TypeofNumber(body.water_level))
    \/ createReadingFindRegion
    \/ createReadingFindWell
    \/ createReadingCreate
    \/ \E data \in WellRows : ReadingsOnData(data)
    \/ ReadingsProcessBatchFind
    \/ \E dbOk \in BOOLEAN : ReadingsInsertMany(dbOk)
    \/ ReadingsOnEnd

SpecWells == InitWells /\ [][NextWells]_vars

\* The steps of the controller's triggers alone.
NextJobs ==
    \/ \E i \in 1..NTrig : \E type \in StatusTriggerTypes : triggerPipelineStart(i, type)
    \/ \E i \in 1..NTrig : triggerPipelineCreate(i)
    \/ \E i \in 1..NTrig : \E dbOk \in BOOLEAN : bgProcessing(i, dbOk)
    \/ \E i \in 1..NTrig : \E ok \in BOOLEAN : bgCallReturn(i, ok)
    \/ \E i \in 1..NTrig : \E dbOk \in BOOLEAN : bgCompleted(i, dbOk)
    \/ \E i \in 1..NTrig : \E dbOk \in BOOLEAN : bgFailed(i, dbOk)

\* Every awaited operation of a background block settles: the updates of
\* the Job resolve or reject, and the external call returns or errors.
FairJobs ==
    \A i \in 1..NTrig :
        /\ WF_vars(\E dbOk \in BOOLEAN : bgProcessing(i, dbOk))
        /\ WF_vars(\E ok \in BOOLEAN : bgCallReturn(i, ok))
        /\ WF_vars(\E dbOk \in BOOLEAN : bgCompleted(i, dbOk))
        /\ WF_vars(\E dbOk \in BOOLEAN : bgFailed(i, dbOk))

SpecJobsFair == InitPipeline /\ [][NextJobs]_vars /\ FairJobs

-----------------------------------------------------------------------------
(* Properties of the CSV ingestion                                         *)

\* Every handler of the upload has run to its end and none is pending.
RunOver ==
    /\ pb.pc = "idle"
    /\ kind = "rainfall" => stream = "closed"
    /\ kind = "readings" => stream \in {"ended", "destroyed"}

\* The documents an action appends to a collection.
Appended(coll, collNext) ==
    {collNext[i] : i \in (Len(coll) + 1)..Len(collNext)}

\* C1: every summary response of an ingestion run reports counts with
\* inserted + failed = total_rows.
C1_CountsAddUp ==
    \A i \in 1..Len(res) :
        res[i].status = 200 => res[i].inserted + res[i].failed = res[i].total_rows

\* C2: a row whose region does not exist or is inactive when the batch's
\* bulk lookup runs is never inserted into a history store.
C2_InactiveRegionNeverInserted ==
    [][\A doc \in Appended(Rainfall, Rainfall') \cup Appended(WaterReading, WaterReading') :
           doc.region_id \in pb.activeRegions]_vars

\* C4: a bad row never aborts the run: with a well formed header and a
\* storage layer that accepts every write, the stream is never destroyed
\* and the run ends with exactly the normal summary, no row dropped.
C4_BadRowNeverAborts ==
    (header = "split" /\ ~dbFailed) =>
        /\ stream # "destroyed"
        /\ RunOver => /\ Len(res) = 1
                      /\ res[1].status = 200
                      /\ res[1].inserted + res[1].failed = res[1].total_rows

\* C5: once the storage layer has rejected a bulk insert, no flush runs
\* again, no row is consumed or inserted any more, and the request is
\* answered with 500 (and with nothing else).
C5_InsertFailureIsFatal ==
    /\ [](dbFailed => /\ pb.pc = "idle"
                      /\ \A i \in 1..Len(res) : res[i].status = 500
                      /\ RunOver => Len(res) = 1)
    /\ [][dbFailed => /\ results'.totalRows = results.totalRows
                      /\ UNCHANGED storeVars]_vars

\* C6: a file whose rows are one pseudo-field containing the delimiter
\* aborts the run at once: no row is counted, staged or inserted, and the
\* only response is 400 "CSV Format Error".
C6_FormatErrorAborts ==
    (header = "unsplit" /\ rowsRead > 0) =>
        /\ results = NoResults
        /\ batch = <<>> /\ pb.pc = "idle"
        /\ \A i \in 1..Len(res) : res[i].status = 400 /\ res[i].error = "CSV Format Error"
        /\ RunOver => Len(res) = 1

\* C7: while a batch flush is in flight no row is counted or staged, the
\* stream stays paused during a flush started by the 'data' handler and is
\* paused only then, and the staged batch never exceeds BATCH_SIZE.
C7_Backpressure ==
    /\ [](/\ Len(batch) <= BATCH_SIZE
          /\ (pb.pc # "idle" /\ pb.caller = "data") => stream = "paused"
          /\ stream = "paused" => (pb.pc # "idle" /\ pb.caller = "data"))
    /\ [][pb.pc # "idle" => /\ results'.totalRows = results.totalRows
                            /\ rowsRead' = rowsRead
                            /\ Len(batch') <= Len(batch)]_vars

\* A second flush is in flight, the stream paused, after a first one completed
\* and consumption resumed.
C7_Witness ==
    /\ pb.pc = "insertMany" /\ pb.caller = "data"
    /\ stream = "paused"
    /\ Len(batch) = BATCH_SIZE
    /\ results.inserted > 0

-----------------------------------------------------------------------------
(* Properties of the extraction handlers                                   *)

\* A non-empty forecast series is available from service B.
ForecastAvailable == forecastSvc.ok /\ Len(forecastSvc.data) > 0

\* The rule of the specification: with baseline m = min of the series, deny
\* when m - (volume / 1000) / (area * sy) < critical.  In the units of the
\* model (decimetres, hundredths) that is volume > (m - critical) * area * sy.
SpecDenies(region, series, volume_liters) ==
    LET m == CHOOSE x \in {series[k] : k \in 1..Len(series)} :
                 \A k \in 1..Len(series) : x <= series[k]
    IN volume_liters >
           (m - region.critical_water_level_m) * region.aquifer_area_m2 * region.specific_yield

\* The request has passed the Safe Yield block without a denial.
Approved(i) ==
    \/ ext[i].pc = "create"
    \/ ext[i].pc = "done" /\ ext[i].status \in {201, 500}

Denied(i) == ext[i].pc = "done" /\ ext[i].status = 409

\* C3: no ExtractionLog is stored while a forecast is available and the
\* projected level of the logged extraction is below the critical level.
C3_LogOnlyAfterApproval ==
    [][\A log \in Appended(ExtractionLog, ExtractionLog') :
           ~(/\ ForecastAvailable
             /\ log.region_id \in DOMAIN Region
             /\ SpecDenies(Region[log.region_id], forecastSvc.data, log.volume_liters))]_vars

UnknownRegion(i) == ext[i].pc # "idle" /\ ext[i].body.region_id \notin DOMAIN Region

\* C8 as stated: a request for an unknown region is answered 404, goes no
\* further than the region lookup, and no log names an unknown region.
C8_UnknownRegion404 ==
    /\ \A i \in 1..NReq :
          UnknownRegion(i) => /\ ext[i].pc \in {"findOne", "done"}
                              /\ ext[i].pc = "done" => ext[i].status = 404
    /\ \A k \in 1..Len(ExtractionLog) : ExtractionLog[k].region_id \in DOMAIN Region

\* C8 as amended: the answer is 404, or 400 when createLog's basic validation
\* (missing region_id or volume_liters) rejects the body before the lookup;
\* in both cases the request goes no further and no log is written.
C8_UnknownRegionRejected ==
    /\ \A i \in 1..NReq :
          UnknownRegion(i) =>
              /\ ext[i].pc \in {"findOne", "done"}
              /\ ext[i].pc = "done" =>
                    ext[i].status = IF ext[i].handler = "createLog"
                                       /\ ext[i].body.volume_liters = 0
                                    THEN 400 ELSE 404
    /\ \A k \in 1..Len(ExtractionLog) : ExtractionLog[k].region_id \in DOMAIN Region

\* Both handlers have answered 404 for the unknown region while service B
\* offers a forecast.
C8_Witness ==
    /\ ForecastAvailable
    /\ \E i, j \in 1..NReq :
          /\ UnknownRegion(i) /\ ext[i].handler = "createLog" /\ ext[i].status = 404
          /\ UnknownRegion(j) /\ ext[j].handler = "logExtraction" /\ ext[j].status = 404

\* createLog found the region of request i.
RegionResolved(i) == ext[i].handler = "createLog" /\ ext[i].region # <<>>

DenialKeys ==
    {"reason", "predicted_level_next_7d", "impact_of_extraction", "critical_limit",
     "physics_used"}

Decided(i) == RegionResolved(i) /\ ext[i].pc # "axios"

\* C12: two createLog evaluations that read the same Region record and carry
\* the same volume, under the forecast series of the behaviour, end in the
\* same decision, whatever logs were stored when each was taken and however
\* the requests interleave.
C12_DecisionIsPure ==
    \A i, j \in 1..NReq :
        (/\ Decided(i) /\ Decided(j)
         /\ ext[i].region = ext[j].region
         /\ ext[i].body.volume_liters = ext[j].body.volume_liters)
            => /\ Denied(i) <=> Denied(j)
               /\ Approved(i) <=> Approved(j)
               /\ ext[i].predictedLevel = ext[j].predictedLevel

\* Two requests with the boundary volume were both approved and both logged,
\* so one of them was stored while the other's log was already there.
C12_Witness ==
    /\ forecastSvc.data = <<105>>
    /\ \E i, j \in 1..NReq :
          /\ i # j
          /\ Decided(i) /\ Decided(j)
          /\ ext[i].body = ext[j].body
          /\ ext[i].body.volume_liters = 75000000
          /\ ext[i].status = 201 /\ ext[j].status = 201
    /\ Len(ExtractionLog) = 2

-----------------------------------------------------------------------------
(* Properties of the job orchestrator                                      *)

\* Position of a status in the order pending, processing, terminal.
Rank(status) ==
    CASE status = "pending" -> 0
      [] status = "processing" -> 1
      [] OTHER -> 2

\* Request i is served by the controller and has its Job.
HasJob(i) == trig[i].handler = "triggerPipeline" /\ trig[i].job # <<>>

\* C13: every Job's status is one of the four values of the enum, no Job is
\* removed, no status moves to an earlier position of pending, processing,
\* {completed, failed}, and completed and failed are final.
C13_StatusForward ==
    /\ [](\A id \in DOMAIN Job : Job[id].status \in JobStatuses)
    /\ [][\A id \in DOMAIN Job :
             /\ id \in DOMAIN Job'
             /\ Rank(Job'[id].status) >= Rank(Job[id].status)
             /\ Job[id].status \in {"completed", "failed"}
                   => Job'[id].status = Job[id].status]_vars

\* One job has run to completed and another to failed.
C13_Witness ==
    \E a, b \in DOMAIN Job :
        /\ Job[a].status = "completed" /\ Job[a].result # <<>>
        /\ Job[b].status = "failed" /\ Job[b].error = <<"Request failed">>

\* C14: a trigger is answered 202, with the id of a persisted Job, and the
\* answer is out before any call to an external service is issued for it.
C14_AckBeforeCall ==
    \A i \in 1..NTrig :
        /\ trig[i].status \in {0, 202, 500}
        /\ trig[i].status = 202 => trig[i].job # <<>> /\ trig[i].job[1] \in DOMAIN Job
        /\ calls[i] # <<>> => trig[i].status = 202

\* C15: the controller calls the external service at most once for a Job;
\* once the call has returned, no further call is made for it, and after a
\* failed call the only write to the Job sets it to failed with the error.
C15_NoRetry ==
    /\ [](\A i \in 1..NTrig :
            trig[i].handler = "triggerPipeline" =>
                /\ Len(calls[i]) <= 1
                /\ calls[i] # <<>> => HasJob(i)
                /\ \A j \in 1..NTrig : (j # i /\ HasJob(i)) => trig[j].job # trig[i].job)
    /\ [][\A i \in 1..NTrig :
             (HasJob(i) /\ trig[i].pc \in {"completed", "failed", "done"}) =>
                 /\ calls'[i] = calls[i]
                 /\ (trig[i].err = <<"Request failed">>
                     /\ Job'[trig[i].job[1]] # Job[trig[i].job[1]])
                       => /\ Job'[trig[i].job[1]].status = "failed"
                          /\ Job'[trig[i].job[1]].error = <<"Request failed">>]_vars

\* The call of a job failed, the job is failed, and its one call is the only
\* one made for it.
C15_Witness ==
    \E i \in 1..NTrig :
        /\ HasJob(i) /\ trig[i].pc = "done"
        /\ trig[i].err = <<"Request failed">>
        /\ Job[trig[i].job[1]].status = "failed"
        /\ Len(calls[i]) = 1

\* The mapping of the specification.
SpecEndpoint ==
    [t \in JobTypes |->
        CASE t = "daily_summary" -> "/jobs/daily-summary"
          [] t = "training" -> "/jobs/train"
          [] t = "forecast" -> "/jobs/forecast"
          [] t = "full_pipeline" -> "/jobs/pipeline"]

\* C16: the controller calls, for a Job, the one endpoint the mapping gives
\* for its job_type, each of the four types has its endpoint, every Job has a
\* type of the enum, and a trigger whose type is outside the enum has no Job
\* and makes no call.
C16_EndpointMapping ==
    /\ \A t \in JobTypes : Endpoint(t) = SpecEndpoint[t]
    /\ \A id \in DOMAIN Job : Job[id].job_type \in JobTypes
    /\ Cardinality(DOMAIN Job) = Cardinality({i \in 1..NTrig : HasJob(i)})
    /\ \A i \in 1..NTrig :
          trig[i].handler = "triggerPipeline" =>
              /\ trig[i].type \notin JobTypes => trig[i].job = <<>> /\ calls[i] = <<>>
              /\ \A k \in 1..Len(calls[i]) :
                    calls[i][k] = SpecEndpoint[Job[trig[i].job[1]].job_type]

\* A forecast job has called /jobs/forecast and a trigger of another type
\* than the four was turned away.
C16_Witness ==
    \E i, j \in 1..NTrig :
        /\ HasJob(i) /\ Job[trig[i].job[1]].job_type = "forecast"
        /\ calls[i] = <<"/jobs/forecast">>
        /\ trig[j].handler = "triggerPipeline" /\ trig[j].type = "bogus"
        /\ trig[j].pc = "done"

\* C17: the Jobs of two triggers are distinct records, there are as many Jobs
\* as triggers that created one, and a step that changes a Job is a step of
\* the request that created it.
C17_IndependentJobs ==
    /\ [](/\ \A i, j \in 1..NTrig :
                (i # j /\ HasJob(i) /\ HasJob(j)) => trig[i].job # trig[j].job
          /\ \A i \in 1..NTrig : HasJob(i) => trig[i].job[1] \in DOMAIN Job
          /\ Cardinality(DOMAIN Job) = Cardinality({i \in 1..NTrig : HasJob(i)}))
    /\ [][\A id \in DOMAIN Job :
             Job'[id] # Job[id] =>
                 \E i \in 1..NTrig : /\ trig[i].job = <<id>>
                                     /\ trig'[i] # trig[i]
                                     /\ \A j \in 1..NTrig : j # i => trig'[j] = trig[j]]_vars

\* Two triggers of the same type have their own Jobs, the first created still
\* processing while the second has completed.
C17_Witness ==
    \E i, j \in 1..NTrig :
        /\ i # j /\ HasJob(i) /\ HasJob(j)
        /\ trig[i].type = trig[j].type
        /\ trig[i].job = <<"j1">> /\ Job["j1"].status = "processing"
        /\ trig[j].job = <<"j2">> /\ Job["j2"].status = "completed"

\* C18: a status query answers with the Job as stored when findById reads
\* it, answers 404 when no Job has the id, and changes no Job.
C18_StatusQuery ==
    [][(qry.pc = "findById" /\ qry'.pc = "done") =>
           /\ Job' = Job
           /\ IF qry.id \in DOMAIN Job
              THEN qry'.status = 200 /\ qry'.data = <<Job[qry.id]>>
              ELSE qry'.status = 404 /\ qry'.data = <<>>]_vars

-----------------------------------------------------------------------------
(* Properties of the Well and history stores                               *)

\* C19: when deleteWell answers, the well it names having at least one
\* WaterReading, the answer is 409 and the Well and WaterReading collections
\* are as before; when it answers for an existing well with no reading, the
\* answer is 200 and exactly that well is gone.
C19_DeleteGuard ==
    [][(dw.pc # "done" /\ dw'.pc = "done") =>
           IF CountReadings(dw.id) > 0
           THEN dw'.status = 409 /\ Well' = Well /\ WaterReading' = WaterReading
           ELSE (\E w \in Well : w.well_id = dw.id) =>
                    /\ dw'.status = 200
                    /\ Well' = {w \in Well : w.well_id # dw.id}
                    /\ WaterReading' = WaterReading]_vars

\* s is an initial segment of t.
IsPrefix(s, t) == Len(s) <= Len(t) /\ \A k \in 1..Len(s) : s[k] = t[k]

\* C20: every step leaves each document already in WaterReading, Rainfall
\* and ExtractionLog in its place and unchanged; the three collections only
\* grow at their end.
C20_HistoryAppendOnly ==
    [][/\ IsPrefix(WaterReading, WaterReading')
       /\ IsPrefix(Rainfall, Rainfall')
       /\ IsPrefix(ExtractionLog, ExtractionLog')]_vars

\* Readings and rainfall of region r1 are stored, the region has since been
\* deactivated, a region and a well were created, and a deletion of the well
\* that has the readings was answered.
C20_Witness ==
    /\ Len(WaterReading) > 0 /\ WaterReading[1].region_id = "r1"
    /\ Len(Rainfall) > 0 /\ Rainfall[1].region_id = "r1"
    /\ ~Region["r1"].is_active
    /\ "r3" \in DOMAIN Region
    /\ \E w \in Well : w.well_id = "w3"
    /\ dw.pc = "done" /\ dw.id = "w1" /\ dw.status = 409

-----------------------------------------------------------------------------
(* Properties of the filtered reads                                        *)

\* C21: whatever the limit parameter, an answered read returns at most 2000
\* rows, and with the limit absent it returns the first 500 matching rows, or
\* all of them when fewer match.
C21_ResultCap ==
    (get.pc = "done" /\ get.status = 200) =>
        /\ get.count <= 2000
        /\ get.limit = "undefined" =>
              get.count = IF get.matching < 500 THEN get.matching ELSE 500

-----------------------------------------------------------------------------
(* Properties of the single inserts                                        *)

\* The region of the request does not exist, or exists and is inactive.
RegionGate(region_id) ==
    IF region_id \notin DOMAIN Region THEN 404
    ELSE IF ~Region[region_id].is_active THEN 409
    ELSE 0

\* C22: createReading and createRainfall store a record only while its
\* region exists and is active, whatever deactivations interleave; a request
\* whose region is found inactive is answered 409, one whose region is not
\* found 404, and neither stores anything.
C22_ActiveAtWrite ==
    [][/\ \A doc \in Appended(Rainfall, Rainfall') \cup Appended(WaterReading, WaterReading') :
             RegionGate(doc.region_id) = 0
       /\ (rd.pc = "findRegion" /\ RegionGate(rd.body.region_id) # 0) =>
             (rd' # rd => /\ rd'.pc = "done" /\ rd'.status = RegionGate(rd.body.region_id)
                          /\ UNCHANGED storeVars)
       /\ (rf.pc = "findRegion" /\ RegionGate(rf.body.region_id) # 0) =>
             (rf' # rf => /\ rf'.pc = "done" /\ rf'.status = RegionGate(rf.body.region_id)
                          /\ UNCHANGED storeVars)]_vars

\* The region lookup of request i returned a region that is not active.
FoundInactive(i) == ext[i].region # <<>> /\ ~ext[i].region[1].is_active

\* C23: an extraction request whose region lookup returns an inactive region
\* is answered 409 at once and stores no ExtractionLog.
C23_InactiveRegionRejected ==
    /\ [](\A i \in 1..NReq :
            FoundInactive(i) => ext[i].pc = "done" /\ ext[i].status = 409)
    /\ [][\A i \in 1..NReq :
             (FoundInactive(i) /\ ext'[i] # ext[i]) => ExtractionLog' = ExtractionLog]_vars

-----------------------------------------------------------------------------
(* Properties of the rows of an upload                                     *)

\* The numeric payload of a staged row: amount_mm or water_level.
PayloadOf(row) == IF kind = "rainfall" THEN row.amount_mm ELSE row.water_level

\* The payload does not parse as a number, or parses as a negative one.
BadNumber(row) ==
    IsNaN(ParseFloat(PayloadOf(row))) \/ ParseFloat(PayloadOf(row)).val < 0

\* C24: in both ingestion kinds no stored record carries a negative payload;
\* the validation of a batch counts every row whose payload does not parse or
\* is negative as failed, hands none of them to the bulk insert, and does not
\* stop the stream.
C24_BadNumberRejected ==
    /\ [](/\ \A k \in 1..Len(Rainfall) : Rainfall[k].amount_mm >= 0
          /\ \A k \in 1..Len(WaterReading) : WaterReading[k].water_level >= 0)
    /\ [][(pb.pc = "find" /\ pb'.pc # "find") =>
             LET bad == Cardinality({k \in 1..Len(batch) : BadNumber(batch[k])})
             IN /\ results'.failed >= results.failed + bad
                /\ Len(pb'.validRecords) <= Len(batch) - bad
                /\ stream' # "destroyed"]_vars

\* C25: every answer of an upload carries at most SampleSize failure
\* reasons, never more than rows failed, and the sample of a summary is the
\* first reasons recorded.
C25_SampleBounded ==
    \A i \in 1..Len(res) :
        /\ Len(res[i].sample_errors) <= SampleSize
        /\ Len(res[i].sample_errors) <= res[i].failed
        /\ res[i].status = 200 => res[i].sample_errors = Slice(results.errors, SampleSize)

\* Every row of the longest upload failed, some at the header check and some
\* in the validation of a batch, and the summary carries SampleSize reasons.
C25_Witness ==
    \E i \in 1..Len(res) :
        /\ res[i].status = 200
        /\ res[i].failed = MaxRows
        /\ Len(results.errors) > SampleSize
        /\ Len(res[i].sample_errors) = SampleSize
        /\ res[i].sample_errors[1] # res[i].sample_errors[2]

-----------------------------------------------------------------------------
(* Referential integrity of the readings                                   *)

\* C26: every stored WaterReading names a well that is in the Well
\* collection, whatever the interleaving of deleteWell with createReading and
\* the upload of readings.
C26_ReadingsHaveWell ==
    \A k \in 1..Len(WaterReading) : \E w \in Well : w.well_id = WaterReading[k].well_id

-----------------------------------------------------------------------------
(* Concurrent extraction requests                                          *)

\* C27: two createLog requests for one region, each of which passes the rule
\* on its own volume against the forecast baseline, are both approved,
\* whether or not the rule would deny their volumes taken together.
C27_NoCrossRequestLock ==
    ForecastAvailable =>
        \A i, j \in 1..NReq :
            (/\ i # j /\ Decided(i) /\ Decided(j)
             /\ ext[i].body.region_id = ext[j].body.region_id
             /\ ~SpecDenies(ext[i].region[1], forecastSvc.data, ext[i].body.volume_liters)
             /\ ~SpecDenies(ext[j].region[1], forecastSvc.data, ext[j].body.volume_liters))
                => Approved(i) /\ Approved(j)

\* Two requests for one region were approved against the same baseline and
\* both logged, and the rule denies a single request of their summed volume.
C27_Witness ==
    /\ ForecastAvailable
    /\ \E i, j \in 1..NReq :
          /\ i # j /\ Decided(i) /\ Decided(j)
          /\ ext[i].body.region_id = ext[j].body.region_id
          /\ ext[i].predictedLevel = ext[j].predictedLevel
          /\ ext[i].status = 201 /\ ext[j].status = 201
          /\ \E a, b \in 1..Len(ExtractionLog) :
                /\ a # b
                /\ ExtractionLog[a] = ext[i].body /\ ExtractionLog[b] = ext[j].body
          /\ SpecDenies(ext[i].region[1], forecastSvc.data,
                        ext[i].body.volume_liters + ext[j].body.volume_liters)

-----------------------------------------------------------------------------
(* Termination and consistency of the jobs                                 *)

\* The Job of request i has reached completed or failed.
Settled(i) ==
    /\ trig[i].job # <<>>
    /\ Job[trig[i].job[1]].status \in {"completed", "failed"}

\* C28: with every awaited operation of the background block settling,
\* every Job acknowledged with 202 eventually reaches completed or failed.
C28_JobsTerminate ==
    \A i \in 1..NTrig : (trig[i].status = 202) ~> Settled(i)

-----------------------------------------------------------------------------
(* Answers of an upload                                                    *)

\* C29: an upload is never answered twice, and once all its handlers have
\* run it has been answered exactly once.
C29_AnsweredOnce ==
    /\ Len(res) <= 1
    /\ RunOver => Len(res) = 1

\* C30: the fields of every Job agree with its status: a completed Job holds
\* the result of the external response, no error, and a completion time; a
\* failed Job holds an error text, no result, and a completion time; a
\* pending or processing Job holds no result, no error and no completion time.
C30_JobFieldsAgree ==
    \A id \in DOMAIN Job :
        CASE Job[id].status = "completed" ->
                 /\ Job[id].result = <<"response.data">>
                 /\ Job[id].error = <<>>
                 /\ Job[id].completed_at # <<>>
          [] Job[id].status = "failed" ->
                 /\ Job[id].error # <<>> /\ Job[id].error[1] # ""
                 /\ Job[id].result = <<>>
                 /\ Job[id].completed_at # <<>>
          [] OTHER ->
                 /\ Job[id].status \in {"pending", "processing"}
                 /\ Job[id].result = <<>>
                 /\ Job[id].error = <<>>
                 /\ Job[id].completed_at = <<>>

\* One Job completed; another failed with the detail text of the external
\* service's answer.
C30_Witness ==
    \E i, j \in 1..NTrig :
        /\ HasJob(i) /\ Job[trig[i].job[1]].status = "completed"
        /\ HasJob(j) /\ Job[trig[j].job[1]].status = "failed"
        /\ Job[trig[j].job[1]].error = <<"Upstream detail">>
        /\ calls[j] # <<>>

====
